---- MODULE Spec2Model ----
(***************************************************************************)
(* A model of the Toy-IR-Engine: the Document record (document.py), the    *)
(* engine's two dictionaries and its add / query operations (IREngine.py). *)
(*                                                                         *)
(* Numbers.  The engine works in floating point.  The model keeps every    *)
(* quantity exact for as long as it can: a term frequency count/len is     *)
(* carried as numerator and denominator, an IDF 1.0 + ln(N/df) in tenths   *)
(* (ln from a table), and a similarity in thousandths.  A division whose   *)
(* divisor is 0 and a logarithm of 0 are recorded as the exception the     *)
(* interpreter raises; a 0/0 inside the cosine is recorded as NaN.         *)
(*                                                                         *)
(* Specifications.  Spec: one caller that only indexes.  SpecQuery: one    *)
(* caller that indexes and queries in any order.  SpecConc: add_document   *)
(* called by two threads, statement by statement, beside a querying one.   *)
(***************************************************************************)
EXTENDS Integers, Sequences, FiniteSets, TLC

\* ---------------------------------------------------------------- bounds
\* The indexing specification: the doc ids and the length of a text.
NumDocs == 2
MaxTextLen == 2
\* The query specification: the length of a query and the largest
\* num_of_results.
MaxQueryLen == 2
MaxResults == 2

DocIds == 1..NumDocs
\* Words a text is made of: one that needs lower-casing, one that does not.
Words == {"Cat", "dog"}
\* Terms a query is made of (query_by_terms takes terms, not text).
QueryVocabulary == {"cat", "dog"}
\* num_of_results: a negative one, zero, and the largest.
ResultCounts == {0 - 1, 0, MaxResults}

RECURSIVE SeqsUpTo(_, _)
SeqsUpTo(S, n) ==
    IF n = 0 THEN {<<>>}
    ELSE LET shorter == SeqsUpTo(S, n - 1)
         IN  shorter \cup {Append(s, x) : s \in shorter, x \in S}

Texts == SeqsUpTo(Words, MaxTextLen)
\* The corpus the query and the thread specifications draw documents from:
\* three doc ids, texts of up to two words.
CorpusIds == {1, 2, 3}
CorpusTexts == SeqsUpTo(Words, 2)
Queries == SeqsUpTo(QueryVocabulary, MaxQueryLen)

Min(a, b) == IF a < b THEN a ELSE b
Max(a, b) == IF a > b THEN a ELSE b

\* ------------------------------------------------------- tokenize_utils.py
stopwords == {"the"}

lower(word) == IF word = "Cat" THEN "cat" ELSE word

\* text.translate(None, punctuation).split(), then per word: lower-case it
\* and keep it unless it is a stop word.  A text is its sequence of words.
RECURSIVE simpler_tokenization(_)
simpler_tokenization(text) ==
    IF text = <<>> THEN <<>>
    ELSE LET word == lower(Head(text))
             rest == simpler_tokenization(Tail(text))
         IN  IF word \notin stopwords THEN <<word>> \o rest ELSE rest

\* ------------------------------------------------------------ document.py
Document(doc_id, text) ==
    [text |-> text, doc_id |-> doc_id, terms |-> simpler_tokenization(text)]

\* str(document)
DocumentStr(document) == document.text

NoDocument == [text |-> <<>>, doc_id |-> 0, terms |-> <<>>]

\* ------------------------------------------------------------- the state
VARIABLES
    documents,       \* self.documents: doc_id -> Document
    inverted_index,  \* self.inverted_index: term -> (doc_id -> count)
    lastOp,          \* the operation that produced this state
    lastDoc,         \* add_document: its argument
    ret,             \* add_document: its return value
    run,             \* query_by_terms: its arguments, locals and outcome
    repeated,        \* query_by_terms: the call before it was the same call
    pc, tdoc, ti, tret  \* the threads of the concurrent specification

vars == <<documents, inverted_index, lastOp, lastDoc, ret, run, repeated,
          pc, tdoc, ti, tret>>

EmptyDict == [x \in {} |-> 0]

\* dict[key] = value
DictSet(dict, key, value) ==
    [x \in DOMAIN dict \cup {key} |-> IF x = key THEN value ELSE dict[x]]

\* ------------------------------------------- IREngine.update_inverted_index
\* IndexTerm with line 60 writing 1 instead of adding 1.
IndexTermNoIncrement(index, doc_id, term) ==
    LET withTerm == IF term \notin DOMAIN index
                    THEN DictSet(index, term, EmptyDict)
                    ELSE index
    IN  DictSet(withTerm, term, DictSet(withTerm[term], doc_id, 1))

\* One iteration of the loop over document.terms.
IndexTerm(index, doc_id, term) ==
    LET withTerm == IF term \notin DOMAIN index
                    THEN DictSet(index, term, EmptyDict)
                    ELSE index
        postings == withTerm[term]
    IN  IF doc_id \notin DOMAIN postings
        THEN DictSet(withTerm, term, DictSet(postings, doc_id, 1))
        ELSE DictSet(withTerm, term,
                     DictSet(postings, doc_id, postings[doc_id] + 1))

RECURSIVE IndexTerms(_, _, _)
IndexTerms(index, doc_id, terms) ==
    IF terms = <<>> THEN index
    ELSE IndexTerms(IndexTerm(index, doc_id, Head(terms)), doc_id, Tail(terms))

update_inverted_index(index, document) ==
    IndexTerms(index, document.doc_id, document.terms)

\* ----------------------------------------------------------- arithmetic
\* math.log in tenths, for the whole numbers the engine can meet.
LnTenths(n) ==
    CASE n = 1 -> 0
      [] n = 2 -> 7
      [] n = 3 -> 11
      [] n = 4 -> 14
      [] n = 5 -> 16
      [] OTHER -> 18

\* floor of the square root of x, by Newton's iteration downwards from a
\* guess that is not below it.
RECURSIVE SqrtFrom(_, _)
SqrtFrom(x, guess) ==
    LET next == (guess + x \div guess) \div 2
    IN  IF next >= guess THEN guess ELSE SqrtFrom(x, next)

RECURSIVE Dot(_, _)
Dot(u, v) ==
    IF u = <<>> \/ v = <<>> THEN 0
    ELSE Head(u) * Head(v) + Dot(Tail(u), Tail(v))

NaN == [nan |-> TRUE, milli |-> 0]

\* 1 - scipy.spatial.distance.cosine(u, v), in thousandths.  A vector is
\* nums / den; the two denominators cancel in u.v / (|u| |v|).  When either
\* vector has magnitude 0 the quotient is 0/0 and scipy yields nan.
Similarity(u, v) ==
    LET uv == Dot(u.nums, v.nums)
        uu == Dot(u.nums, u.nums)
        vv == Dot(v.nums, v.nums)
    IN  IF uu = 0 \/ vv = 0 THEN NaN
        ELSE LET norms == SqrtFrom(uu * vv, (uu + vv) \div 2 + 1)
                 distance == 1000 - (1000 * uv) \div norms
             IN  [nan |-> FALSE, milli |-> 1000 - distance]

\* a > b on floats: false whenever either side is nan
FloatGreater(a, b) == ~a.nan /\ ~b.nan /\ a.milli > b.milli

\* ------------------------------------------------------ python built-ins
Count(seq, x) == Cardinality({i \in DOMAIN seq : seq[i] = x})

\* seq[:n]
SliceTo(seq, n) ==
    IF n >= 0 THEN SubSeq(seq, 1, Min(n, Len(seq)))
    ELSE SubSeq(seq, 1, Max(0, Len(seq) + n))

\* sorted(results, key=lambda tup: tup[1], reverse=True): stable, so an
\* element goes behind every element whose key is not smaller than its own.
\* InsertDescending for a sort that is not stable: an element goes in front
\* of the elements whose key equals its own.
RECURSIVE InsertDescendingUnstable(_, _)
InsertDescendingUnstable(sortedSeq, x) ==
    IF sortedSeq = <<>> THEN <<x>>
    ELSE IF ~FloatGreater(Head(sortedSeq).similarity, x.similarity)
         THEN <<x>> \o sortedSeq
         ELSE <<Head(sortedSeq)>> \o InsertDescendingUnstable(Tail(sortedSeq), x)

RECURSIVE InsertDescending(_, _)
InsertDescending(sortedSeq, x) ==
    IF sortedSeq = <<>> THEN <<x>>
    ELSE IF FloatGreater(x.similarity, Head(sortedSeq).similarity)
         THEN <<x>> \o sortedSeq
         ELSE <<Head(sortedSeq)>> \o InsertDescending(Tail(sortedSeq), x)

RECURSIVE SortedDescendingFrom(_, _)
SortedDescendingFrom(done, rest) ==
    IF rest = <<>> THEN done
    ELSE SortedDescendingFrom(InsertDescending(done, Head(rest)), Tail(rest))

sorted_reverse(results) == SortedDescendingFrom(<<>>, results)

\* ------------------------------------------ IREngine._calculate_term_idf
\* _calculate_term_idf with the quotient upside down: log(df / N).
calculate_term_idf_inverted(docs, index, term) ==
    LET num_of_docs_with_term ==
            IF term \in DOMAIN index THEN Cardinality(DOMAIN index[term]) ELSE 0
        total == Cardinality(DOMAIN docs)
    IN  IF term \in DOMAIN index
        THEN IF total = 0
             THEN [fault |-> "ZeroDivisionError", tenths |-> 0,
                   log_taken |-> TRUE, df |-> num_of_docs_with_term]
             ELSE IF num_of_docs_with_term = 0
             THEN [fault |-> "ValueError", tenths |-> 0,
                   log_taken |-> TRUE, df |-> num_of_docs_with_term]
             ELSE [fault |-> "none",
                   tenths |-> 10 + LnTenths(num_of_docs_with_term) - LnTenths(total),
                   log_taken |-> TRUE, df |-> num_of_docs_with_term]
        ELSE [fault |-> "none", tenths |-> 10, log_taken |-> FALSE,
              df |-> num_of_docs_with_term]

_calculate_term_idf(docs, index, term) ==
    LET num_of_docs_with_term ==
            IF term \in DOMAIN index THEN Cardinality(DOMAIN index[term]) ELSE 0
        total == Cardinality(DOMAIN docs)
    IN  IF term \in DOMAIN index
        THEN IF num_of_docs_with_term = 0
             THEN [fault |-> "ZeroDivisionError", tenths |-> 0,
                   log_taken |-> TRUE, df |-> num_of_docs_with_term]
             ELSE IF total = 0
             THEN [fault |-> "ValueError", tenths |-> 0,
                   log_taken |-> TRUE, df |-> num_of_docs_with_term]
             ELSE [fault |-> "none",
                   tenths |-> 10 + LnTenths(total) - LnTenths(num_of_docs_with_term),
                   log_taken |-> TRUE, df |-> num_of_docs_with_term]
        ELSE [fault |-> "none", tenths |-> 10, log_taken |-> FALSE,
              df |-> num_of_docs_with_term]

\* ------------------------------------- IREngine._get_relevant_doc_ids
\* hash(doc_id) & mask: the slot of a doc id in a small set's table.  A
\* stand-in for the string hash, which is fixed for the life of the process.
HashSlot(doc_id) == (doc_id * 5) % 8

RECURSIVE SetIteration(_)
SetIteration(S) ==
    IF S = {} THEN <<>>
    ELSE LET first == CHOOSE x \in S : \A y \in S : HashSlot(x) <= HashSlot(y)
         IN  <<first>> \o SetIteration(S \ {first})

\* _get_relevant_doc_ids without the pruning: every stored document.
get_relevant_doc_ids_unpruned(docs, index, terms) == SetIteration(DOMAIN docs)

\* The set of doc ids under any of the terms, as the sequence in which a
\* loop over the set visits them.  docs and index are self's.
_get_relevant_doc_ids(docs, index, terms) ==
    LET relevant_docs ==
            UNION {DOMAIN index[terms[i]] :
                       i \in {j \in DOMAIN terms : terms[j] \in DOMAIN index}}
    IN  SetIteration(relevant_docs)

FirstFault(faults) ==
    LET raised == SelectSeq(faults, LAMBDA f : f # "none")
    IN  IF raised = <<>> THEN "none" ELSE Head(raised)

\* --------------------------------- IREngine.calculate_tf_idf_for_query
\* Inside the second loop, once per query term:
\*     term_tf = float(query_term_frequencies[query_term]) / len(query_terms)
QueryTermTf(query_terms, i) ==
    [fault |-> IF Len(query_terms) = 0 THEN "ZeroDivisionError" ELSE "none",
     num |-> Count(query_terms, query_terms[i]),
     den |-> Len(query_terms)]

\* calculate_tf_idf_for_query with the division by len(query_terms) taken
\* out of the loop, so that it is evaluated for an empty query too.
calculate_tf_idf_for_query_hoisted(docs, index, query_terms) ==
    LET term_idf == [i \in DOMAIN query_terms |->
                        _calculate_term_idf(docs, index, query_terms[i])]
    IN  [nums |-> [i \in DOMAIN query_terms |->
                      Count(query_terms, query_terms[i]) * term_idf[i].tenths],
         fault |-> IF Len(query_terms) = 0 THEN "ZeroDivisionError"
                   ELSE FirstFault([i \in DOMAIN query_terms |-> term_idf[i].fault]),
         den |-> Len(query_terms)]

calculate_tf_idf_for_query(docs, index, query_terms) ==
    LET term_tf == [i \in DOMAIN query_terms |-> QueryTermTf(query_terms, i)]
        term_idf == [i \in DOMAIN query_terms |->
                        _calculate_term_idf(docs, index, query_terms[i])]
    IN  [nums |-> [i \in DOMAIN query_terms |-> term_tf[i].num * term_idf[i].tenths],
         fault |-> FirstFault([i \in DOMAIN query_terms |->
                                  IF term_tf[i].fault # "none"
                                  THEN term_tf[i].fault ELSE term_idf[i].fault]),
         den |-> Len(query_terms)]

\* ------------------------------------------------ IREngine.query_by_terms
\* The body of the loop over relevant_doc_ids, for one doc id.  The TF of a
\* query term in the document is count / len(document.terms), and that
\* division is evaluated only for a query term that is in the index.
ScoreDocument(docs, index, query_terms, query_vector, term_to_idf_mapping, doc_id) ==
    LET known == doc_id \in DOMAIN docs
        document == IF known THEN docs[doc_id] ELSE NoDocument
        divides == \E i \in DOMAIN query_terms : query_terms[i] \in DOMAIN index
        count(term) ==
            IF term \in DOMAIN index /\ doc_id \in DOMAIN index[term]
            THEN index[term][doc_id] ELSE 0
        document_vector ==
            [nums |-> [i \in DOMAIN query_terms |->
                          count(query_terms[i]) * term_to_idf_mapping[i].tenths],
             den |-> Len(document.terms)]
    IN  [text |-> DocumentStr(document),
         doc_id |-> doc_id,
         similarity |-> Similarity(query_vector, document_vector),
         fault |-> IF ~known THEN "KeyError"
                   ELSE IF divides /\ Len(document.terms) = 0
                        THEN "ZeroDivisionError" ELSE "none",
         divides |-> divides,
         document_vector |-> document_vector]

query_by_terms(docs, index, query_terms, num_of_results) ==
    LET query_tf_idf_vector == calculate_tf_idf_for_query(docs, index, query_terms)
        term_to_idf_mapping ==
            [i \in DOMAIN query_terms |->
                _calculate_term_idf(docs, index, query_terms[i])]
        relevant_doc_ids == _get_relevant_doc_ids(docs, index, query_terms)
        results ==
            [n \in DOMAIN relevant_doc_ids |->
                ScoreDocument(docs, index, query_terms, query_tf_idf_vector,
                              term_to_idf_mapping, relevant_doc_ids[n])]
        fault ==
            FirstFault(<<query_tf_idf_vector.fault>>
                       \o [i \in DOMAIN query_terms |-> term_to_idf_mapping[i].fault]
                       \o [n \in DOMAIN results |-> results[n].fault])
        limit == IF num_of_results > Len(results) THEN Len(results)
                 ELSE num_of_results
        top_results == SliceTo(sorted_reverse(results), limit)
        returned == SliceTo(top_results, limit)
    IN  [results |-> results,
         fault |-> fault,
         query_terms |-> query_terms,
         query_vector |-> query_tf_idf_vector,
         num_of_results |-> num_of_results,
         returned |-> IF fault = "none"
                      THEN [n \in DOMAIN returned |-> returned[n].text]
                      ELSE <<>>,
         idf |-> term_to_idf_mapping,
         top |-> IF fault = "none" THEN returned ELSE <<>>]

NoRun == query_by_terms(EmptyDict, EmptyDict, <<>>, 0)

\* add_document without the membership test of line 41.
add_document_overwrite(document) ==
    /\ lastOp' = "add_document"
    /\ lastDoc' = document
    /\ run' = NoRun
    /\ repeated' = FALSE
    /\ documents' = DictSet(documents, document.doc_id, document)
    /\ inverted_index' = update_inverted_index(inverted_index, document)
    /\ ret' = TRUE
    /\ UNCHANGED <<pc, tdoc, ti, tret>>

\* --------------------------------------------------- IREngine.add_document
add_document(document) ==
    /\ lastOp' = "add_document"
    /\ lastDoc' = document
    /\ run' = NoRun
    /\ repeated' = FALSE
    /\ IF document.doc_id \notin DOMAIN documents
       THEN /\ documents' = DictSet(documents, document.doc_id, document)
            /\ inverted_index' = update_inverted_index(inverted_index, document)
            /\ ret' = TRUE
       ELSE /\ UNCHANGED <<documents, inverted_index>>
            /\ ret' = FALSE
    /\ UNCHANGED <<pc, tdoc, ti, tret>>

\* query_by_terms looking a term up the way a defaultdict does: a term that
\* is not in the index gets an empty postings entry.
QueryInserting(query_terms, num_of_results) ==
    /\ lastOp' = "query_by_terms"
    /\ lastDoc' = NoDocument
    /\ ret' = FALSE
    /\ run' = query_by_terms(documents, inverted_index, query_terms, num_of_results)
    /\ repeated' = (/\ lastOp = "query_by_terms"
                    /\ run.query_terms = query_terms
                    /\ run.num_of_results = num_of_results)
    /\ inverted_index' =
           [t \in DOMAIN inverted_index \cup {query_terms[i] : i \in DOMAIN query_terms} |->
               IF t \in DOMAIN inverted_index THEN inverted_index[t] ELSE EmptyDict]
    /\ UNCHANGED documents
    /\ UNCHANGED <<pc, tdoc, ti, tret>>

\* query_by_terms as its caller sees it: the dictionaries it leaves behind
\* and what it returns or raises.
Query(query_terms, num_of_results) ==
    /\ lastOp' = "query_by_terms"
    /\ lastDoc' = NoDocument
    /\ ret' = FALSE
    /\ run' = query_by_terms(documents, inverted_index, query_terms, num_of_results)
    /\ repeated' = (/\ lastOp = "query_by_terms"
                    /\ run.query_terms = query_terms
                    /\ run.num_of_results = num_of_results)
    /\ UNCHANGED <<documents, inverted_index>>
    /\ UNCHANGED <<pc, tdoc, ti, tret>>

\* ------------------------------------------------------------- the threads
\* add_document run by two threads with no lock around it: the interpreter
\* may switch threads between any two statements.
Threads == {"t1", "t2"}

\* A step of a thread inside add_document: no call has returned to the one
\* caller the history variables describe.
Observed ==
    /\ lastOp' = "thread"
    /\ lastDoc' = NoDocument
    /\ ret' = FALSE
    /\ run' = NoRun
    /\ repeated' = FALSE

Call(t, document) ==
    /\ pc[t] = "idle"
    /\ pc' = [pc EXCEPT ![t] = "line41"]
    /\ tdoc' = [tdoc EXCEPT ![t] = document]
    /\ Observed
    /\ UNCHANGED <<documents, inverted_index, ti, tret>>

\* if document.doc_id not in self.documents: ... else print, return False
Line41(t) ==
    /\ pc[t] = "line41"
    /\ IF tdoc[t].doc_id \notin DOMAIN documents
       THEN /\ pc' = [pc EXCEPT ![t] = "line42"]
            /\ UNCHANGED tret
       ELSE /\ pc' = [pc EXCEPT ![t] = "done"]
            /\ tret' = [tret EXCEPT ![t] = "False"]
    /\ Observed
    /\ UNCHANGED <<documents, inverted_index, tdoc, ti>>

\* self.documents[document.doc_id] = document
Line42(t) ==
    /\ pc[t] = "line42"
    /\ documents' = DictSet(documents, tdoc[t].doc_id, tdoc[t])
    /\ pc' = [pc EXCEPT ![t] = "line53"]
    /\ ti' = [ti EXCEPT ![t] = 1]
    /\ Observed
    /\ UNCHANGED <<inverted_index, tdoc, tret>>

\* one iteration of: for term in document.terms
Line53(t) ==
    /\ pc[t] = "line53"
    /\ ti[t] <= Len(tdoc[t].terms)
    /\ inverted_index' = IndexTerm(inverted_index, tdoc[t].doc_id, tdoc[t].terms[ti[t]])
    /\ ti' = [ti EXCEPT ![t] = @ + 1]
    /\ Observed
    /\ UNCHANGED <<documents, pc, tdoc, tret>>

\* the loop is over: return True
Line44(t) ==
    /\ pc[t] = "line53"
    /\ ti[t] > Len(tdoc[t].terms)
    /\ pc' = [pc EXCEPT ![t] = "done"]
    /\ tret' = [tret EXCEPT ![t] = "True"]
    /\ Observed
    /\ UNCHANGED <<documents, inverted_index, tdoc, ti>>

\* ------------------------------------------------------ the specifications
\* IREngine.__init__
Init ==
    /\ documents = EmptyDict
    /\ inverted_index = EmptyDict
    /\ lastOp = "init"
    /\ lastDoc = NoDocument
    /\ ret = FALSE
    /\ run = NoRun
    /\ repeated = FALSE
    /\ pc = [t \in Threads |-> "idle"]
    /\ tdoc = [t \in Threads |-> NoDocument]
    /\ ti = [t \in Threads |-> 0]
    /\ tret = [t \in Threads |-> "none"]

\* One caller that indexes: any sequence of add_document calls.
AddAny == \E doc_id \in DocIds, text \in Texts : add_document(Document(doc_id, text))

Next == AddAny

Spec == Init /\ [][Next]_vars

\* One caller that indexes and queries, in any order.
AddCorpus == \E doc_id \in CorpusIds, text \in CorpusTexts :
                 add_document(Document(doc_id, text))

QueryAny == \E query_terms \in Queries, k \in ResultCounts : Query(query_terms, k)

NextQuery == AddCorpus \/ QueryAny

SpecQuery == Init /\ [][NextQuery]_vars

\* Two threads that each call add_document once, and a third that queries.
ThreadCall == \E t \in Threads, doc_id \in CorpusIds, text \in CorpusTexts :
                  Call(t, Document(doc_id, text))

ThreadLine41 == \E t \in Threads : Line41(t)

ThreadLine42 == \E t \in Threads : Line42(t)

ThreadLine53 == \E t \in Threads : Line53(t)

ThreadLine44 == \E t \in Threads : Line44(t)

ThreadQuery == \E query_terms \in Queries : Query(query_terms, Cardinality(CorpusIds))

NextConc ==
    \/ ThreadCall
    \/ ThreadLine41
    \/ ThreadLine42
    \/ ThreadLine53
    \/ ThreadLine44
    \/ ThreadQuery

SpecConc == Init /\ [][NextConc]_vars

\* ================================================================ claims
Range(seq) == {seq[i] : i \in DOMAIN seq}

\* The documents among docs that contain term at least once.
Containing(docs, term) == {d \in DOMAIN docs : Count(docs[d].terms, term) >= 1}

\* The terms that occur in some document of docs.
TermsOf(docs) == UNION {Range(docs[d].terms) : d \in DOMAIN docs}

\* The index derived from docs.
IndexOf(docs) ==
    [t \in TermsOf(docs) |->
        [d \in Containing(docs, t) |-> Count(docs[d].terms, t)]]

IsQuery == lastOp = "query_by_terms"

\* C1: after any sequence of add_document calls, accepted or rejected, the
\* inverted index is the index derived from the stored documents: a term is
\* a key iff a stored document contains it, a doc id is under a term iff
\* that document contains the term, the value is the number of occurrences,
\* and the document frequency of any term, known or not, is the number of
\* stored documents that contain it.
C1_IndexDerivedFromDocuments ==
    /\ DOMAIN inverted_index = TermsOf(documents)
    /\ \A t \in DOMAIN inverted_index :
          /\ DOMAIN inverted_index[t] = Containing(documents, t)
          /\ \A d \in DOMAIN inverted_index[t] :
                inverted_index[t][d] = Count(documents[d].terms, t)
    /\ \A t \in QueryVocabulary \cup stopwords :
          _calculate_term_idf(documents, inverted_index, t).df
              = Cardinality(Containing(documents, t))

\* C1 witness: a call was just rejected, "dog" is in two documents and twice
\* in one of them, and "cat" is in none.
C1_Witness ==
    /\ lastOp = "add_document" /\ ret = FALSE
    /\ "dog" \in DOMAIN inverted_index
    /\ "cat" \notin DOMAIN inverted_index
    /\ Cardinality(DOMAIN inverted_index["dog"]) = 2
    /\ \E d \in DOMAIN inverted_index["dog"] : inverted_index["dog"][d] = 2

\* C2: add_document with a doc id that is already stored returns False and
\* leaves documents and inverted_index as they were.
C2_DuplicateLeavesStateUnchanged ==
    [][(lastOp' = "add_document" /\ lastDoc'.doc_id \in DOMAIN documents)
          => (/\ ret' = FALSE
              /\ documents' = documents
              /\ inverted_index' = inverted_index)]_vars

\* C2 witness: a rejected call whose document has other terms than the
\* stored document of the same id.
C2_Witness ==
    /\ lastOp = "add_document" /\ ret = FALSE
    /\ lastDoc.doc_id \in DOMAIN documents
    /\ lastDoc.terms # documents[lastDoc.doc_id].terms
    /\ lastDoc.terms # <<>>

\* The place of a doc id in the order the candidates were scored in.
Position(results, doc_id) == CHOOSE n \in DOMAIN results : results[n].doc_id = doc_id

\* C3: what query_by_terms returns is ordered by similarity, highest first,
\* and of two returned documents with the same similarity the one scored
\* first comes first; the returned texts are those documents' texts.
C3_RankedBySimilarityStable ==
    IsQuery =>
        /\ Len(run.returned) = Len(run.top)
        /\ \A n \in DOMAIN run.top :
              /\ \E m \in DOMAIN run.results : run.results[m] = run.top[n]
              /\ run.returned[n] = DocumentStr(documents[run.top[n].doc_id])
        /\ \A i, j \in DOMAIN run.top :
              i < j =>
                 /\ ~run.top[i].similarity.nan /\ ~run.top[j].similarity.nan
                 /\ run.top[i].similarity.milli >= run.top[j].similarity.milli
                 /\ run.top[i].similarity.milli = run.top[j].similarity.milli
                       => Position(run.results, run.top[i].doc_id)
                              < Position(run.results, run.top[j].doc_id)

\* C3 witness: three candidates, the one scored first the least similar; the
\* two returned are the other two, equally similar.
C3_Witness ==
    /\ IsQuery
    /\ Len(run.results) = 3 /\ Len(run.top) = 2
    /\ run.top[1].similarity.milli = run.top[2].similarity.milli
    /\ run.results[1].similarity.milli < run.top[1].similarity.milli

\* C4: query_by_terms returns at most min(k, number of candidates) results,
\* and none when k <= 0.
C4_AtMostKResults ==
    IsQuery =>
        IF run.num_of_results <= 0 THEN run.returned = <<>>
        ELSE Len(run.returned) <= Min(run.num_of_results, Len(run.results))

\* C5: query_by_terms with no terms returns the empty list and raises
\* nothing, whatever k and whatever is stored.
C5_EmptyQueryEmptyResult ==
    (IsQuery /\ run.query_terms = <<>>) =>
        /\ run.fault = "none"
        /\ run.returned = <<>>

\* C5 witness: the empty query, asked for two results of an engine that
\* holds a document with terms.
C5_Witness ==
    /\ IsQuery /\ run.query_terms = <<>> /\ run.num_of_results = 2
    /\ inverted_index # EmptyDict

\* C6: query_by_terms leaves documents and inverted_index as they were, and
\* the same call made twice in a row returns the same list.
C6_QueryIsPureRead ==
    [][lastOp' = "query_by_terms"
          => (/\ documents' = documents
              /\ inverted_index' = inverted_index
              /\ repeated' => (run'.returned = run.returned /\ run'.fault = run.fault))]_vars

\* C6 witness: the second of two identical calls in a row, of a query with
\* a term that is not in the index, returning two documents.
C6_Witness ==
    /\ IsQuery /\ repeated
    /\ Len(run.returned) = 2
    /\ \E i \in DOMAIN run.query_terms : run.query_terms[i] \notin DOMAIN inverted_index

\* C7: no query raises on a division by zero or a logarithm of zero: the
\* log branch of the IDF is taken only with a document frequency >= 1, the
\* length a TF is divided by is >= 1, and a document with no terms is never
\* scored.
C7_NoDivisionByZero ==
    IsQuery =>
        /\ run.fault \notin {"ZeroDivisionError", "ValueError"}
        /\ \A i \in DOMAIN run.idf :
              run.idf[i].log_taken
                  => run.idf[i].df >= 1 /\ Cardinality(DOMAIN documents) >= 1
        /\ run.query_terms # <<>> => run.query_vector.den >= 1
        /\ \A n \in DOMAIN run.results : run.results[n].document_vector.den >= 1

\* C7 witness: a query that scored a document, taking the log branch, of an
\* engine that also holds a document with no terms.
C7_Witness ==
    /\ IsQuery
    /\ \E d \in DOMAIN documents : documents[d].terms = <<>>
    /\ run.results # <<>>
    /\ \E i \in DOMAIN run.idf : run.idf[i].log_taken

\* C10: for a non-empty query, every doc id scored is stored, has terms and
\* contains a query term, so its vector has a positive coordinate; every
\* coordinate of the query vector is positive, the IDF being at least 1 and
\* the document frequency of an indexed term between 1 and the number of
\* stored documents; so no similarity is nan.
C10_NoZeroVector ==
    (IsQuery /\ run.query_terms # <<>>) =>
        /\ run.fault = "none"
        /\ \A n \in DOMAIN run.results :
              LET r == run.results[n]
              IN  /\ r.doc_id \in DOMAIN documents
                  /\ documents[r.doc_id].terms # <<>>
                  /\ Range(documents[r.doc_id].terms) \cap Range(run.query_terms) # {}
                  /\ \E i \in DOMAIN r.document_vector.nums : r.document_vector.nums[i] > 0
                  /\ \A i \in DOMAIN r.document_vector.nums : r.document_vector.nums[i] >= 0
                  /\ ~r.similarity.nan
        /\ \A i \in DOMAIN run.query_terms :
              /\ run.query_vector.nums[i] > 0
              /\ run.idf[i].tenths >= 10
              /\ run.idf[i].log_taken
                    => /\ run.idf[i].df >= 1
                       /\ run.idf[i].df <= Cardinality(DOMAIN documents)

\* C10 witness: a query with a term that is in no document; the document it
\* scored has a zero coordinate, and a rarer term weighs more than 1.
C10_Witness ==
    /\ IsQuery
    /\ \E i \in DOMAIN run.idf : ~run.idf[i].log_taken
    /\ \E i \in DOMAIN run.idf : run.idf[i].tenths > 10
    /\ \E n \in DOMAIN run.results :
          \E i \in DOMAIN run.query_terms : run.results[n].document_vector.nums[i] = 0

\* A stored document all of whose term occurrences are in the index.
FullyIndexed(d) ==
    \A t \in Range(documents[d].terms) :
        /\ t \in DOMAIN inverted_index
        /\ d \in DOMAIN inverted_index[t]
        /\ inverted_index[t][d] >= Count(documents[d].terms, t)

\* C8: whenever a query reads the engine, every document is either stored
\* and fully indexed or in neither dictionary.
C8_QuerySeesNoPartialDocument ==
    IsQuery =>
        /\ \A d \in DOMAIN documents : FullyIndexed(d)
        /\ \A t \in DOMAIN inverted_index :
              DOMAIN inverted_index[t] \subseteq DOMAIN documents

\* C9: of two concurrent add_document calls with the same doc id one returns
\* True and the other False, and the index then holds the counts of the
\* stored document only.
C9_OneWinnerNoDoubleCount ==
    (/\ \A t \in Threads : pc[t] = "done"
     /\ tdoc["t1"].doc_id = tdoc["t2"].doc_id)
        => /\ {tret[t] : t \in Threads} = {"True", "False"}
           /\ inverted_index = IndexOf(documents)

====
